---------------------------- MODULE Spec2Model ----------------------------
(***************************************************************************)
(* A state-machine model of the simulation kernel of the Bangladesh flood  *)
(* management simulator: the shelter, household, river and economic agents *)
(* and the scheduler that activates them.                                  *)
(*                                                                         *)
(* Numbers.  The program computes in floating point; the model computes in *)
(* fixed point, every division truncating:                                 *)
(*   - resource stocks and requested quantities: tenths of a unit;         *)
(*   - maintenance_level and accessibility: 1/10000;                       *)
(*   - water levels and thresholds: millimetres (1/1000 m);                *)
(*   - positions and distances: hundredths of a grid unit, all agents on   *)
(*     the line y = 0.5;                                                   *)
(*   - probabilities, production, recovery, impact, exposure: 1/1000.      *)
(***************************************************************************)
EXTENDS Integers, Sequences, FiniteSets, TLC

\* ------------------------------------------------------------------ bounds
MaxCapacity   == 2      \* shelter capacities 1..MaxCapacity are configured
MaxOps        == 5      \* calls made on an agent that is driven alone
MaxQueue      == 2      \* pending resource requests the driver lets build up
MaxSteps      == 2      \* calls of the model's step
MaxHouseholds == 2      \* households the configuration creates
MaxAgents     == 3      \* agents the configuration creates in all

\* ------------------------------------------------------- shared vocabulary
HouseholdOrder == <<"household_0", "household_1", "household_2", "household_3">>
HouseholdIds   == {HouseholdOrder[i] : i \in 1..Len(HouseholdOrder)}
ShelterOrder   == <<"shelter_0", "shelter_1">>
ShelterIds     == {ShelterOrder[i] : i \in 1..Len(ShelterOrder)}

NoCost == -1            \* state has no 'maintenance_cost' key yet

Min(a, b) == IF a < b THEN a ELSE b
Max(a, b) == IF a > b THEN a ELSE b

\* --------------------------------------------------------------- geometry
\* int(round(x)) for x in hundredths: Python rounds halves to even.
Cell(x) ==
    LET q == x \div 100
        r == x % 100
    IN  IF r < 50 THEN q
        ELSE IF r > 50 THEN q + 1
        ELSE IF q % 2 = 0 THEN q ELSE q + 1

Abs(a) == IF a < 0 THEN -a ELSE a

\* distance_to on the line: sqrt(dx*dx + 0).
Distance(x1, x2) == Abs(x1 - x2)

VARIABLES
    config,     \* what the configuration and the collaborators supply
    rivers,     \* river id -> river agent
    shelters,   \* shelter id -> shelter agent (state map, occupants, queue)
    households, \* household id -> household agent
    econs,      \* economic id -> economic agent
    sched,      \* the scheduler: step counter and the current activation pass
    lastCall,   \* the last call made from outside on an agent, and its result
    admitLog    \* results of the add_occupant calls of the admission driver

vars == <<config, rivers, shelters, households, econs, sched, lastCall, admitLog>>

\* ================================================================ shelter
\* ShelterAgent.__init__: the state map, occupants and resource_requests.
\* hlen is len(self.history).
ShelterNew(position, capacity) ==
    [ position          |-> position,
      occupancy         |-> 0,
      capacity          |-> capacity,
      resources         |-> [ food             |-> 10000,
                              water            |-> 50000,
                              medical_supplies |-> 1000,
                              blankets         |-> 5000 ],
      status            |-> "operational",
      accessibility     |-> 10000,
      maintenance_level |-> 10000,
      power_status      |-> TRUE,
      water_supply      |-> TRUE,
      maintenance_cost  |-> NoCost,
      occupants         |-> {},
      resource_requests |-> <<>>,
      hlen              |-> 0 ]

\* BaseAgent.update_state on a shelter: the keys are replaced by the caller,
\* one snapshot is appended to history.
ShelterLogged(sh) == [sh EXCEPT !.hlen = @ + 1]

\* A mutant of add_occupant: the capacity test is off by one.
add_occupant_OffByOne(sh, h) ==
    IF sh.occupancy > sh.capacity
    THEN [ret |-> FALSE, agent |-> sh]
    ELSE [ret |-> TRUE,
          agent |-> [sh EXCEPT !.occupants = @ \cup {h},
                               !.occupancy = Cardinality(sh.occupants \cup {h})]]

\* A mutant of add_occupant: a rejected household is still put in the set.
add_occupant_PartialAdmit(sh, h) ==
    IF sh.occupancy >= sh.capacity
    THEN [ret |-> FALSE, agent |-> [sh EXCEPT !.occupants = @ \cup {h}]]
    ELSE [ret |-> TRUE,
          agent |-> [sh EXCEPT !.occupants = @ \cup {h},
                               !.occupancy = Cardinality(sh.occupants \cup {h})]]

\* ShelterAgent.add_occupant: the returned flag and the shelter afterwards.
add_occupant(sh, h) ==
    IF sh.occupancy >= sh.capacity
    THEN [ret |-> FALSE, agent |-> sh]
    ELSE [ret |-> TRUE,
          agent |-> [sh EXCEPT !.occupants = @ \cup {h},
                               !.occupancy = Cardinality(sh.occupants \cup {h})]]

\* ShelterAgent.remove_occupant.
remove_occupant(sh, h) ==
    IF h \in sh.occupants
    THEN [sh EXCEPT !.occupants = @ \ {h},
                    !.occupancy = Cardinality(sh.occupants \ {h})]
    ELSE sh

\* ShelterAgent.request_resources: rejected at the first requested resource
\* that is not stocked or is short; accepted requests are appended, nothing
\* is deducted.
request_accepted(sh, request) ==
    \A k \in DOMAIN request :
        /\ k \in DOMAIN sh.resources
        /\ ~(sh.resources[k] < request[k])

\* A mutant of request_resources: a resource the shelter does not stock is
\* passed over instead of rejecting the request.
request_resources_SkipsUnknown(sh, request) ==
    IF \A k \in DOMAIN request \cap DOMAIN sh.resources :
           ~(sh.resources[k] < request[k])
    THEN [ret |-> TRUE,
          agent |-> [sh EXCEPT !.resource_requests = Append(@, request)]]
    ELSE [ret |-> FALSE, agent |-> sh]

\* A mutant of request_resources: an accepted request is deducted at once.
request_resources_DeductsAtOnce(sh, request) ==
    IF request_accepted(sh, request)
    THEN [ret |-> TRUE,
          agent |-> [sh EXCEPT
              !.resource_requests = Append(@, request),
              !.resources = [k \in DOMAIN sh.resources |->
                  IF k \in DOMAIN request THEN sh.resources[k] - request[k]
                  ELSE sh.resources[k]]]]
    ELSE [ret |-> FALSE, agent |-> sh]

request_resources(sh, request) ==
    IF request_accepted(sh, request)
    THEN [ret |-> TRUE,
          agent |-> [sh EXCEPT !.resource_requests = Append(@, request)]]
    ELSE [ret |-> FALSE, agent |-> sh]

\* consumption_rates of _update_resource_consumption, per occupant and step.
consumption_rates ==
    [ food |-> 5, water |-> 50, medical_supplies |-> 1, blankets |-> 2 ]

\* A mutant of _update_resource_consumption: the floor at zero is missing.
update_resource_consumption_NoFloor(sh) ==
    [sh EXCEPT !.resources =
        [k \in DOMAIN sh.resources |->
            sh.resources[k] - consumption_rates[k] * sh.occupancy]]

\* ShelterAgent._update_resource_consumption (writes the nested map in place,
\* no update_state).
update_resource_consumption(sh) ==
    [sh EXCEPT !.resources =
        [k \in DOMAIN sh.resources |->
            Max(0, sh.resources[k] - consumption_rates[k] * sh.occupancy)]]

\* ShelterAgent._request_maintenance.
request_maintenance(sh) ==
    ShelterLogged(
        [sh EXCEPT !.status = "maintenance_needed",
                   !.maintenance_cost =
                       ((10000 - sh.maintenance_level) * sh.capacity) \div 100])

\* A mutant of _check_maintenance: the new level is not floored at 0.
check_maintenance_NoFloor(sh) ==
    LET degradation_rate == (100 * sh.occupancy) \div sh.capacity
        new_level        == sh.maintenance_level - degradation_rate
        updated          == ShelterLogged([sh EXCEPT !.maintenance_level = new_level])
    IN  IF new_level < 5000 THEN request_maintenance(updated) ELSE updated

\* ShelterAgent._check_maintenance.
check_maintenance(sh) ==
    LET degradation_rate == (100 * sh.occupancy) \div sh.capacity
        new_level        == Max(0, sh.maintenance_level - degradation_rate)
        updated          == ShelterLogged([sh EXCEPT !.maintenance_level = new_level])
    IN  IF new_level < 5000 THEN request_maintenance(updated) ELSE updated

\* list.remove(x): the first element equal to x is dropped.
RECURSIVE RemoveFirst(_, _)
RemoveFirst(q, x) ==
    IF q = <<>> THEN <<>>
    ELSE IF Head(q) = x THEN Tail(q)
    ELSE <<Head(q)>> \o RemoveFirst(Tail(q), x)

can_fulfill(resources, request) ==
    \A k \in DOMAIN request : ~(resources[k] < request[k])

deduct(resources, request) ==
    [k \in DOMAIN resources |->
        IF k \in DOMAIN request THEN resources[k] - request[k] ELSE resources[k]]

\* The loop of _process_resource_requests over the copy of the queue.
RECURSIVE process_loop(_, _, _)
process_loop(copy, resources, queue) ==
    IF copy = <<>>
    THEN [resources |-> resources, queue |-> queue]
    ELSE IF can_fulfill(resources, Head(copy))
         THEN process_loop(Tail(copy), deduct(resources, Head(copy)),
                           RemoveFirst(queue, Head(copy)))
         ELSE process_loop(Tail(copy), resources, queue)

\* A mutant of _process_resource_requests: every queued request is deducted,
\* satisfiable or not.
process_resource_requests_NoCheck(sh) ==
    LET RECURSIVE all(_, _)
        all(copy, resources) ==
            IF copy = <<>> THEN resources
            ELSE all(Tail(copy), deduct(resources, Head(copy)))
    IN  [sh EXCEPT !.resources = all(sh.resource_requests, sh.resources),
                   !.resource_requests = <<>>]

\* A mutant of _process_resource_requests: the loop stops at the first
\* request that cannot be fulfilled.
process_resource_requests_StopsAtFirst(sh) ==
    LET RECURSIVE upto(_, _, _)
        upto(copy, resources, queue) ==
            IF copy = <<>> \/ ~can_fulfill(resources, Head(copy))
            THEN [resources |-> resources, queue |-> queue]
            ELSE upto(Tail(copy), deduct(resources, Head(copy)),
                      RemoveFirst(queue, Head(copy)))
        done == upto(sh.resource_requests, sh.resources, sh.resource_requests)
    IN  [sh EXCEPT !.resources = done.resources,
                   !.resource_requests = done.queue]

\* ShelterAgent._process_resource_requests.
process_resource_requests(sh) ==
    LET done == process_loop(sh.resource_requests, sh.resources,
                             sh.resource_requests)
    IN  [sh EXCEPT !.resources = done.resources,
                   !.resource_requests = done.queue]

\* ShelterAgent._update_accessibility: weights 0.3, 0.2, 0.2, 0.3.
update_accessibility(sh) ==
    LET maintenance == sh.maintenance_level
        power       == IF sh.power_status THEN 10000 ELSE 5000
        water       == IF sh.water_supply THEN 10000 ELSE 5000
        occupancy   == 10000 - (10000 * sh.occupancy) \div sh.capacity
    IN  ShelterLogged(
            [sh EXCEPT !.accessibility =
                (3 * maintenance + 2 * power + 2 * water + 3 * occupancy) \div 10])

\* A mutant of _update_status: maintenance is needed below 0.5, the level at
\* which _check_maintenance asks for it.
update_status_HalfThreshold(sh) ==
    LET operational        == /\ sh.maintenance_level > 3000
                              /\ sh.power_status
                              /\ sh.water_supply
        maintenance_needed == sh.maintenance_level < 5000
        resource_critical  == \E k \in DOMAIN sh.resources : sh.resources[k] < 1000
        at_capacity        == sh.occupancy >= sh.capacity
        status == IF at_capacity THEN "at_capacity"
                  ELSE IF maintenance_needed THEN "maintenance_needed"
                  ELSE IF resource_critical THEN "resource_critical"
                  ELSE IF operational THEN "operational"
                  ELSE "non_operational"
    IN  ShelterLogged([sh EXCEPT !.status = status])

\* ShelterAgent._update_status.
update_status(sh) ==
    LET operational        == /\ sh.maintenance_level > 3000
                              /\ sh.power_status
                              /\ sh.water_supply
        maintenance_needed == sh.maintenance_level <= 3000
        resource_critical  == \E k \in DOMAIN sh.resources : sh.resources[k] < 1000
        at_capacity        == sh.occupancy >= sh.capacity
        status == IF at_capacity THEN "at_capacity"
                  ELSE IF maintenance_needed THEN "maintenance_needed"
                  ELSE IF resource_critical THEN "resource_critical"
                  ELSE IF operational THEN "operational"
                  ELSE "non_operational"
    IN  ShelterLogged([sh EXCEPT !.status = status])

\* ShelterAgent.step.
shelter_step(sh) ==
    update_status(
        update_accessibility(
            process_resource_requests(
                check_maintenance(
                    update_resource_consumption(sh)))))

\* ================================================================== river
RiverIds == {"river_Ganges", "river_Tista"}

\* FloodSimulationModel._get_river_position: (0.3, 0.5) for the Ganges,
\* (0.5, 0.5) for a river the table does not name.
get_river_position(id) == IF id = "river_Ganges" THEN 30 ELSE 50

\* RiverAgent.__init__.  affected_areas is the length of the list.
RiverNew(id) ==
    [ position       |-> get_river_position(id),
      water_level    |-> 0,
      flow_rate      |-> 0,
      sediment_load  |-> 0,
      flood_status   |-> "normal",
      warning_level  |-> 0,
      affected_areas |-> 0,
      hlen           |-> 0 ]

RiverLogged(r) == [r EXCEPT !.hlen = @ + 1]

\* The position of every agent the grid holds, by id.
AgentPosition(id) ==
    IF id \in DOMAIN rivers THEN rivers[id].position
    ELSE IF id \in DOMAIN shelters THEN shelters[id].position
    ELSE IF id \in DOMAIN households THEN households[id].position
    ELSE econs[id].position

AllAgents ==
    DOMAIN rivers \cup DOMAIN shelters \cup DOMAIN households \cup DOMAIN econs

\* grid.get_neighbors(pos, moore=True, include_center=False, radius): the
\* agents in the cells at Chebyshev distance 1..radius of pos's cell.
get_neighbors(x, radius) ==
    { a \in AllAgents :
        /\ Cell(AgentPosition(a)) # Cell(x)
        /\ Abs(Cell(AgentPosition(a)) - Cell(x)) <= radius }

\* A mutant of _update_water_level: the level is floored at a base flow of
\* 0.1 m instead of 0.
update_water_level_BaseFlow(r, rainfall) ==
    LET base_level            == r.water_level
        rainfall_contribution == rainfall * 100
        evaporation_loss      == base_level \div 100
        new_level == base_level + rainfall_contribution - evaporation_loss
    IN  RiverLogged([r EXCEPT !.water_level = Max(100, new_level)])

\* RiverAgent._update_water_level, given the rainfall the model returned.
update_water_level(r, rainfall) ==
    LET base_level            == r.water_level
        rainfall_contribution == rainfall * 100
        evaporation_loss      == base_level \div 100
        new_level == base_level + rainfall_contribution - evaporation_loss
    IN  RiverLogged([r EXCEPT !.water_level = Max(0, new_level)])

\* The integer cube root, for R^(2/3): bisection on lo^3 <= n < hi^3.
RECURSIVE CbrtBetween(_, _, _)
CbrtBetween(n, lo, hi) ==
    IF hi - lo <= 1 THEN lo
    ELSE LET mid == (lo + hi) \div 2
         IN  IF mid * mid * mid <= n
             THEN CbrtBetween(n, mid, hi)
             ELSE CbrtBetween(n, lo, mid)

ICbrt(n) == CbrtBetween(n, 0, 1200)

\* RiverAgent._calculate_flow_rate: Manning's equation with n = 0.03,
\* S = 0.0001 and width 1000 m, so Q = A * R^(2/3) / 3 with A = water_level
\* (mm, numerically m^2) and R in mm.
calculate_flow_rate(r) ==
    LET water_level      == r.water_level
        area             == water_level
        wetted_perimeter == (2 * water_level) \div 1000 + 1000
        hydraulic_radius == (1000 * area) \div wetted_perimeter
        flow_rate == (area * ICbrt(hydraulic_radius * hydraulic_radius)) \div 300
    IN  RiverLogged([r EXCEPT !.flow_rate = flow_rate])

\* RiverAgent._update_sediment_load (in thousandths).
update_sediment_load(r) ==
    RiverLogged([r EXCEPT !.sediment_load = (r.flow_rate * r.water_level) \div 1000])

\* A mutant of _check_flood_conditions: the thresholds are exclusive.
check_flood_conditions_Exclusive(r, thresholds) ==
    LET water_level == r.water_level
        level == IF water_level > thresholds.severe_level THEN 3
                 ELSE IF water_level > thresholds.danger_level THEN 2
                 ELSE IF 10 * water_level > 7 * thresholds.danger_level THEN 1
                 ELSE 0
        status == CASE level = 3 -> "severe" [] level = 2 -> "danger"
                    [] level = 1 -> "warning" [] OTHER -> "normal"
    IN  RiverLogged([r EXCEPT !.flood_status = status, !.warning_level = level])

\* RiverAgent._check_flood_conditions.
check_flood_conditions(r, thresholds) ==
    LET water_level == r.water_level
    IN  IF water_level >= thresholds.severe_level
        THEN RiverLogged([r EXCEPT !.flood_status = "severe", !.warning_level = 3])
        ELSE IF water_level >= thresholds.danger_level
        THEN RiverLogged([r EXCEPT !.flood_status = "danger", !.warning_level = 2])
        ELSE IF 10 * water_level >= 7 * thresholds.danger_level
        THEN RiverLogged([r EXCEPT !.flood_status = "warning", !.warning_level = 1])
        ELSE RiverLogged([r EXCEPT !.flood_status = "normal", !.warning_level = 0])

\* RiverAgent._update_affected_areas.  get_neighbors returns agents, and
\* _is_area_affected subscripts its argument as a coordinate pair: with any
\* agent in the radius-2 neighbourhood the call raises TypeError before
\* affected_areas is written.
update_affected_areas(r) ==
    IF r.flood_status \in {"danger", "severe"}
    THEN IF get_neighbors(r.position, 2) # {}
         THEN [raised |-> TRUE, agent |-> r]
         ELSE [raised |-> FALSE, agent |-> RiverLogged([r EXCEPT !.affected_areas = 0])]
    ELSE [raised |-> FALSE, agent |-> RiverLogged([r EXCEPT !.affected_areas = 0])]

\* RiverAgent.step.  The model class defines no get_rainfall_data: unless a
\* rainfall source is attached to it the first statement raises
\* AttributeError and nothing is written.
river_step(r, rainfall) ==
    IF ~config.rainfall_source
    THEN [raised |-> TRUE, agent |-> r]
    ELSE update_affected_areas(
             check_flood_conditions(
                 update_sediment_load(
                     calculate_flow_rate(
                         update_water_level(r, rainfall))),
                 config.flood_thresholds))

\* ============================================================== household
\* HouseholdAgent.__init__: vulnerability, housing_type and the income tier's
\* base_value are drawn at creation and fixed.
HouseholdNew(position, profile) ==
    [ position            |-> position,
      evacuation_status   |-> "home",
      evacuation_decision |-> FALSE,
      warning_received    |-> FALSE,
      warning_level       |-> 0,
      flood_exposure      |-> 0,
      damage_level        |-> 0,
      assets_at_risk      |-> 0,
      nearest_shelter     |-> "None",
      evacuation_time     |-> 0,
      vulnerability       |-> profile.vulnerability,
      housing_type        |-> profile.housing_type,
      base_value          |-> profile.base_value,
      hlen                |-> 0 ]

HouseholdLogged(h) == [h EXCEPT !.hlen = @ + 1]

\* The rivers (the agents that have get_flood_warning) among the radius-3
\* neighbours of the agent's grid cell.
nearby_rivers(x) == get_neighbors(x, 3) \cap DOMAIN rivers

RECURSIVE SumOver(_, _)
SumOver(S, f) ==
    IF S = {} THEN 0
    ELSE LET a == CHOOSE b \in S : TRUE
         IN  f[a] + SumOver(S \ {a}, f)

MaxOver(S, f) ==
    IF S = {} THEN 0
    ELSE CHOOSE m \in {f[a] : a \in S} : \A a \in S : f[a] <= m

\* A mutant of _check_warnings: the rivers are looked for within radius 2.
check_warnings_Radius2(h) ==
    LET near == get_neighbors(h.position, 2) \cap DOMAIN rivers
        max_warning_level ==
            Max(0, MaxOver(near, [r \in near |-> rivers[r].warning_level]))
    IN  HouseholdLogged([h EXCEPT !.warning_received = max_warning_level > 0,
                                  !.warning_level = max_warning_level])

\* HouseholdAgent._check_warnings.
check_warnings(h) ==
    LET near == nearby_rivers(h.position)
        max_warning_level ==
            Max(0, MaxOver(near, [r \in near |-> rivers[r].warning_level]))
    IN  HouseholdLogged([h EXCEPT !.warning_received = max_warning_level > 0,
                                  !.warning_level = max_warning_level])

\* The sum of water_level / (1 + distance) over the nearby rivers.
weighted_water(x) ==
    LET near == nearby_rivers(x)
    IN  SumOver(near,
            [r \in near |->
                (rivers[r].water_level * 100)
                    \div (100 + Distance(x, rivers[r].position))])

\* HouseholdAgent._assess_flood_risk.
assess_flood_risk(h) ==
    HouseholdLogged([h EXCEPT !.flood_exposure = weighted_water(h.position)])

housing_risk == [ kutcha |-> 12, semi_pucca |-> 10, pucca |-> 8 ]

\* final_probability of _make_evacuation_decision.
final_probability(h) ==
    LET base_probability ==
            300 * h.warning_level + (4 * h.flood_exposure) \div 10
                + (3 * h.vulnerability) \div 10
    IN  Min(1000, (base_probability * housing_risk[h.housing_type]) \div 10)

\* A mutant of _make_evacuation_decision: the decision is drawn anew in
\* every step, whatever the household's status.
make_evacuation_decision_Redraws(h, draw) ==
    HouseholdLogged([h EXCEPT !.evacuation_decision = draw < final_probability(h)])

\* A mutant of _make_evacuation_decision: the draw is compared with <=.
make_evacuation_decision_Inclusive(h, draw) ==
    IF h.evacuation_status # "home" THEN h
    ELSE HouseholdLogged([h EXCEPT !.evacuation_decision = draw <= final_probability(h)])

\* HouseholdAgent._make_evacuation_decision, given the uniform draw.
make_evacuation_decision(h, draw) ==
    IF h.evacuation_status # "home" THEN h
    ELSE HouseholdLogged([h EXCEPT !.evacuation_decision = draw < final_probability(h)])

ShelterIndex(s) == IF s = "shelter_0" THEN 0 ELSE 1

\* HouseholdAgent._find_nearest_shelter: min() keeps the first of the
\* shelters at the least distance, in the order they were added.
find_nearest_shelter(h) ==
    IF DOMAIN shelters = {} THEN "None"
    ELSE CHOOSE s \in DOMAIN shelters :
            \A t \in DOMAIN shelters :
                \/ Distance(h.position, shelters[s].position)
                       < Distance(h.position, shelters[t].position)
                \/ /\ Distance(h.position, shelters[s].position)
                          = Distance(h.position, shelters[t].position)
                   /\ ShelterIndex(s) <= ShelterIndex(t)

\* HouseholdAgent._move_towards_shelter and the move_to it calls: a step of
\* 0.1 towards the shelter; HouseholdAgent.move_to records no snapshot.
move_towards_shelter(h, target) ==
    LET dx == target - h.position
        distance == Abs(dx)
    IN  IF distance > 0
        THEN [h EXCEPT !.position = @ + (IF dx > 0 THEN 10 ELSE -10)]
        ELSE h

\* A mutant of _arrive_at_shelter: the household is entered at the shelter
\* while its status is left as it was.
arrive_at_shelter_StatusKept(id, h, sh) ==
    [ household |-> HouseholdLogged([h EXCEPT !.evacuation_decision = FALSE]),
      shelter   |-> add_occupant(sh, id).agent ]

\* A mutant of _arrive_at_shelter: the household goes back home.
arrive_at_shelter_BackHome(id, h, sh) ==
    [ household |-> HouseholdLogged([h EXCEPT !.evacuation_status = "home",
                                              !.evacuation_decision = FALSE]),
      shelter   |-> add_occupant(sh, id).agent ]

\* HouseholdAgent._arrive_at_shelter: the household and the shelter
\* afterwards; the flag add_occupant returns is not looked at.
arrive_at_shelter(id, h, sh) ==
    [ household |-> HouseholdLogged([h EXCEPT !.evacuation_status = "shelter",
                                              !.evacuation_decision = FALSE]),
      shelter   |-> add_occupant(sh, id).agent ]

\* A mutant of _execute_evacuation: the household starts evacuating before
\* a shelter is looked for.
execute_evacuation_StatusFirst(id, h, u) ==
    LET nearest_shelter == find_nearest_shelter(h)
    IN  IF ~h.evacuation_decision THEN [household |-> h, shelters |-> shelters]
        ELSE IF nearest_shelter = "None"
        THEN [ household |-> HouseholdLogged([h EXCEPT !.evacuation_status = "evacuating"]),
               shelters  |-> shelters ]
        ELSE LET sh == shelters[nearest_shelter]
                 time_with_obstacles ==
                     Distance(h.position, sh.position) * (1000 + 20 * u)
                 started == HouseholdLogged(
                     [h EXCEPT !.evacuation_status = "evacuating",
                               !.nearest_shelter = nearest_shelter,
                               !.evacuation_time = time_with_obstacles])
             IN  IF time_with_obstacles <= 1000
                 THEN LET arrived == arrive_at_shelter(id, started, sh)
                      IN  [ household |-> arrived.household,
                            shelters  |-> [shelters EXCEPT ![nearest_shelter] = arrived.shelter] ]
                 ELSE [ household |-> move_towards_shelter(started, sh.position),
                        shelters  |-> shelters ]

\* HouseholdAgent._execute_evacuation, given the uniform draw u (in tenths):
\* the household and the shelters afterwards.
execute_evacuation(id, h, u) ==
    LET nearest_shelter == find_nearest_shelter(h)
    IN  IF ~h.evacuation_decision \/ nearest_shelter = "None"
        THEN [household |-> h, shelters |-> shelters]
        ELSE LET sh == shelters[nearest_shelter]
                 time_with_obstacles ==
                     Distance(h.position, sh.position) * (1000 + 20 * u)
                 started == HouseholdLogged(
                     [h EXCEPT !.evacuation_status = "evacuating",
                               !.nearest_shelter = nearest_shelter,
                               !.evacuation_time = time_with_obstacles])
             IN  IF time_with_obstacles <= 1000
                 THEN LET arrived == arrive_at_shelter(id, started, sh)
                      IN  [ household |-> arrived.household,
                            shelters  |-> [shelters EXCEPT ![nearest_shelter] = arrived.shelter] ]
                 ELSE [ household |-> move_towards_shelter(started, sh.position),
                        shelters  |-> shelters ]

damage_factors == [ kutcha |-> 8, semi_pucca |-> 5, pucca |-> 3 ]

\* A mutant of _update_damage_assessment: the test for 'home' is missing.
update_damage_assessment_Always(h) ==
    LET base_damage  == (h.flood_exposure * damage_factors[h.housing_type]) \div 10
        total_damage == (h.base_value * base_damage) \div 1000
    IN  HouseholdLogged([h EXCEPT !.damage_level = base_damage,
                                  !.assets_at_risk = total_damage])

\* HouseholdAgent._update_damage_assessment; the asset values sum to
\* base_value.
update_damage_assessment(h) ==
    IF h.evacuation_status = "home"
    THEN LET base_damage  == (h.flood_exposure * damage_factors[h.housing_type]) \div 10
             total_damage == (h.base_value * base_damage) \div 1000
         IN  HouseholdLogged([h EXCEPT !.damage_level = base_damage,
                                       !.assets_at_risk = total_damage])
    ELSE h

\* HouseholdAgent.step, given its two uniform draws.
household_step(id, h, draw, u) ==
    LET decided == make_evacuation_decision(
                       assess_flood_risk(check_warnings(h)), draw)
        moved   == IF decided.evacuation_decision
                   THEN execute_evacuation(id, decided, u)
                   ELSE [household |-> decided, shelters |-> shelters]
    IN  [ household |-> update_damage_assessment(moved.household),
          shelters  |-> moved.shelters ]

\* =============================================================== economic
\* sector_params of _initialize_sector_parameters (employment_ratio is used
\* only for the fixed employment figure, which the model leaves out).
sector_params_of(sector) ==
    CASE sector = "agriculture" ->
            [ vulnerability |-> 800, recovery_time |-> 180,
              insurance_rate |-> 300, base_assets |-> 50000 ]
      [] sector = "industry" ->
            [ vulnerability |-> 600, recovery_time |-> 90,
              insurance_rate |-> 700, base_assets |-> 200000 ]
      [] sector = "services" ->
            [ vulnerability |-> 400, recovery_time |-> 30,
              insurance_rate |-> 500, base_assets |-> 100000 ]
      [] OTHER ->
            [ vulnerability |-> 500, recovery_time |-> 60,
              insurance_rate |-> 500, base_assets |-> 75000 ]

\* EconomicAgent.__init__.  flood_impact and insured_damage are read with a
\* default of 0 until they are first written.
EconNew(position, sector) ==
    [ position         |-> position,
      sector           |-> sector,
      production_level |-> 1000,
      damage           |-> 0,
      insured_damage   |-> 0,
      recovery_rate    |-> 0,
      assets           |-> sector_params_of(sector).base_assets,
      market_access    |-> 1000,
      flood_impact     |-> 0,
      sector_params    |-> sector_params_of(sector),
      hlen             |-> 0 ]

EconLogged(e) == [e EXCEPT !.hlen = @ + 1]

\* EconomicAgent._assess_flood_impact.
assess_flood_impact(e) ==
    EconLogged([e EXCEPT !.flood_impact =
        (weighted_water(e.position) * e.sector_params.vulnerability) \div 1000])

\* EconomicAgent._update_production.
update_production(e) ==
    LET new_production ==
            Max(0, Min(1000,
                (e.production_level * (1000 - e.flood_impact)) \div 1000
                    + e.recovery_rate))
    IN  EconLogged([e EXCEPT !.production_level = new_production])

\* A mutant of _calculate_damage: the insured and uninsured shares are
\* swapped.
calculate_damage_SwappedShares(e) ==
    LET base_damage ==
            (((e.assets * e.flood_impact) \div 1000) * (1000 - e.production_level))
                \div 1000
        insured_damage   ==
            (base_damage * (1000 - e.sector_params.insurance_rate)) \div 1000
        uninsured_damage == (base_damage * e.sector_params.insurance_rate) \div 1000
    IN  EconLogged([e EXCEPT !.damage = uninsured_damage,
                             !.insured_damage = insured_damage])

\* EconomicAgent._calculate_damage.
calculate_damage(e) ==
    LET base_damage ==
            (((e.assets * e.flood_impact) \div 1000) * (1000 - e.production_level))
                \div 1000
        insured_damage   == (base_damage * e.sector_params.insurance_rate) \div 1000
        uninsured_damage ==
            (base_damage * (1000 - e.sector_params.insurance_rate)) \div 1000
    IN  EconLogged([e EXCEPT !.damage = uninsured_damage,
                             !.insured_damage = insured_damage])

\* A mutant of _update_recovery: the new rate is not capped at 1.
update_recovery_NoCap(e) ==
    LET recovery_factor == 1000 \div e.sector_params.recovery_time
        new_recovery ==
            e.recovery_rate + (recovery_factor * (1000 - e.flood_impact)) \div 1000
    IN  EconLogged([e EXCEPT !.recovery_rate = new_recovery])

\* EconomicAgent._update_recovery.
update_recovery(e) ==
    LET recovery_factor == 1000 \div e.sector_params.recovery_time
        new_recovery ==
            Min(1000, e.recovery_rate
                          + (recovery_factor * (1000 - e.flood_impact)) \div 1000)
    IN  EconLogged([e EXCEPT !.recovery_rate = new_recovery])

\* EconomicAgent._update_market_access.
update_market_access(e) ==
    LET base_access       == 1000 - e.flood_impact
        production_factor == 700 + (3 * e.production_level) \div 10
        new_access        == (base_access * production_factor) \div 1000
    IN  EconLogged([e EXCEPT !.market_access = new_access])

\* EconomicAgent.step.
econ_step(e) ==
    update_market_access(
        update_recovery(
            calculate_damage(
                update_production(
                    assess_flood_impact(e)))))

\* EconomicAgent.apply_policy_intervention: direct writes, no snapshot; an
\* unknown type changes nothing.
apply_policy_intervention(e, type, magnitude) ==
    CASE type = "subsidy" ->
            [e EXCEPT !.production_level =
                Min(1000, (e.production_level * (1000 + magnitude)) \div 1000)]
      [] type = "insurance" ->
            [e EXCEPT !.sector_params.insurance_rate =
                Min(1000, (e.sector_params.insurance_rate * (1000 + magnitude)) \div 1000)]
      [] type = "recovery" ->
            [e EXCEPT !.recovery_rate =
                Min(1000, (e.recovery_rate * (1000 + magnitude)) \div 1000)]
      [] type = "infrastructure" ->
            [e EXCEPT !.market_access =
                Min(1000, (e.market_access * (1000 + magnitude)) \div 1000)]
      [] OTHER -> e

\* ============================================================== scheduler
\* mesa's RandomActivation as FloodSimulationModel.step drives it: a pass
\* activates the agents in a fresh random order, then steps is incremented.
\* An exception raised by an agent's step leaves schedule.step, the model's
\* step and run_model: the pass is abandoned.
SchedNew ==
    [ steps       |-> 0,        \* schedule.steps
      calls       |-> 0,        \* calls of FloodSimulationModel.step so far
      phase       |-> "idle",   \* idle | stepping | failed
      pending     |-> {},       \* agents of this pass not yet activated
      activations |-> <<>> ]    \* agent -> activations in the last pass

NoCall == [seq |-> 0, op |-> "none", agent |-> "none", arg |-> "none", ret |-> "none"]

Called(op, agent, arg, ret) ==
    lastCall' = [seq |-> lastCall.seq + 1, op |-> op, agent |-> agent,
                 arg |-> arg, ret |-> ret]

BoolStr(b) == IF b THEN "True" ELSE "False"

\* FloodSimulationModel.step, up to the first activation: the shuffled
\* agent buffer.
BeginStep ==
    /\ sched.phase = "idle"
    /\ sched.calls < MaxSteps
    /\ sched' = [sched EXCEPT !.phase = "stepping",
                              !.calls = @ + 1,
                              !.pending = AllAgents,
                              !.activations = [a \in AllAgents |-> 0]]
    /\ UNCHANGED <<config, rivers, shelters, households, econs, lastCall, admitLog>>

\* The scheduler after agent a's step returned (raised = FALSE) or raised.
Activated(a, raised) ==
    [sched EXCEPT !.pending = @ \ {a},
                  !.activations[a] = @ + 1,
                  !.phase = IF raised THEN "failed" ELSE @]

RainInputs == {0, 7}
DecisionDraws == {0, 999}
TravelDraws == {0, 9}

ActivateRiver(r, rainfall) ==
    /\ sched.phase = "stepping"
    /\ r \in sched.pending \cap DOMAIN rivers
    /\ LET out == river_step(rivers[r], rainfall)
       IN  /\ rivers' = [rivers EXCEPT ![r] = out.agent]
           /\ sched' = Activated(r, out.raised)
    /\ UNCHANGED <<config, shelters, households, econs, lastCall, admitLog>>

ActivateShelter(s) ==
    /\ sched.phase = "stepping"
    /\ s \in sched.pending \cap DOMAIN shelters
    /\ shelters' = [shelters EXCEPT ![s] = shelter_step(shelters[s])]
    /\ sched' = Activated(s, FALSE)
    /\ UNCHANGED <<config, rivers, households, econs, lastCall, admitLog>>

\* A mutant of the household's activation: reading a river's warning
\* acknowledges it, and the river's warning_level is reset.
ActivateHousehold_AcknowledgesWarning(h, draw, u) ==
    /\ sched.phase = "stepping"
    /\ h \in sched.pending \cap DOMAIN households
    /\ LET out == household_step(h, households[h], draw, u)
       IN  /\ households' = [households EXCEPT ![h] = out.household]
           /\ shelters' = out.shelters
    /\ rivers' = [r \in DOMAIN rivers |->
                     IF r \in nearby_rivers(households[h].position)
                     THEN [rivers[r] EXCEPT !.warning_level = 0]
                     ELSE rivers[r]]
    /\ sched' = Activated(h, FALSE)
    /\ UNCHANGED <<config, econs, lastCall, admitLog>>

ActivateHousehold(h, draw, u) ==
    /\ sched.phase = "stepping"
    /\ h \in sched.pending \cap DOMAIN households
    /\ LET out == household_step(h, households[h], draw, u)
       IN  /\ households' = [households EXCEPT ![h] = out.household]
           /\ shelters' = out.shelters
    /\ sched' = Activated(h, FALSE)
    /\ UNCHANGED <<config, rivers, econs, lastCall, admitLog>>

ActivateEcon(e) ==
    /\ sched.phase = "stepping"
    /\ e \in sched.pending \cap DOMAIN econs
    /\ econs' = [econs EXCEPT ![e] = econ_step(econs[e])]
    /\ sched' = Activated(e, FALSE)
    /\ UNCHANGED <<config, rivers, shelters, households, lastCall, admitLog>>

\* The end of schedule.step: every agent of the pass was activated.
EndStep ==
    /\ sched.phase = "stepping"
    /\ sched.pending = {}
    /\ sched' = [sched EXCEPT !.phase = "idle", !.steps = @ + 1]
    /\ UNCHANGED <<config, rivers, shelters, households, econs, lastCall, admitLog>>

\* ---------------------------------------------------------- configuration
Thresholds == [danger_level |-> 1000, severe_level |-> 1500]

HouseholdProfiles ==
    { [vulnerability |-> 500, housing_type |-> "kutcha", base_value |-> 1000],
      [vulnerability |-> 0,   housing_type |-> "pucca",  base_value |-> 20000] }

\* The position drawn for each household: on the shelter's cell or a step
\* of 0.1 away from it.
HouseholdPosition(h) ==
    IF h \in {"household_0", "household_2"} THEN 300 ELSE 310

ShelterPosition(s) == IF s = "shelter_0" THEN 300 ELSE 320

EconIds == {"economic_agriculture"}

EconPosition == 100

\* range(n) of the creation loops: the first n ids.
HouseholdSets ==
    { {HouseholdOrder[i] : i \in 1..n} :
        n \in 0..Min(MaxHouseholds, Len(HouseholdOrder)) }

ShelterSets == { {ShelterOrder[i] : i \in 1..n} : n \in 0..Len(ShelterOrder) }

\* FloodSimulationModel.__init__ and _initialize_agents: the agents the
\* configuration lists, each as its constructor leaves it.
Init ==
    /\ \E rain \in BOOLEAN, cap \in 1..MaxCapacity :
          config = [ rainfall_source |-> rain,
                     flood_thresholds |-> Thresholds,
                     capacity_per_shelter |-> cap ]
    /\ \E R \in {{}, {"river_Ganges"}}, S \in ShelterSets,
          H \in HouseholdSets, E \in {{}, EconIds} :
          /\ Cardinality(R) + Cardinality(S) + Cardinality(H) + Cardinality(E)
                 <= MaxAgents
          /\ rivers = [r \in R |-> RiverNew(r)]
          /\ shelters = [s \in S |->
                ShelterNew(ShelterPosition(s), config.capacity_per_shelter)]
          /\ \E profile \in [H -> HouseholdProfiles] :
                households = [h \in H |->
                                 HouseholdNew(HouseholdPosition(h), profile[h])]
          /\ econs = [e \in E |-> EconNew(EconPosition, "agriculture")]
    /\ sched = SchedNew
    /\ lastCall = NoCall
    /\ admitLog = <<>>

Next ==
    \/ BeginStep
    \/ \E r \in DOMAIN rivers, rainfall \in RainInputs : ActivateRiver(r, rainfall)
    \/ \E s \in DOMAIN shelters : ActivateShelter(s)
    \/ \E h \in DOMAIN households, draw \in DecisionDraws, u \in TravelDraws :
          ActivateHousehold(h, draw, u)
    \/ \E e \in DOMAIN econs : ActivateEcon(e)
    \/ EndStep

Spec == Init /\ [][Next]_vars

\* ------------------------------------------------ agents driven directly
\* The other specifications call one agent's public methods from outside,
\* in any order, as a test or another component would.
BareConfig(rain, thresholds, cap) ==
    [ rainfall_source |-> rain, flood_thresholds |-> thresholds,
      capacity_per_shelter |-> cap ]

\* The requests the driver makes (quantities in tenths).
RequestMenu ==
    [ all_medical    |-> [medical_supplies |-> 1000],
      most_medical   |-> [medical_supplies |-> 600],
      food_and_fuel  |-> [food |-> 10, fuel |-> 10],
      too_much_water |-> [water |-> 60000] ]

ShelterInit ==
    /\ \E cap \in 1..MaxCapacity :
          /\ config = BareConfig(FALSE, Thresholds, cap)
          /\ shelters = [s \in {"shelter_0"} |-> ShelterNew(ShelterPosition(s), cap)]
    /\ rivers = <<>>
    /\ households = <<>>
    /\ econs = <<>>
    /\ sched = SchedNew
    /\ lastCall = NoCall
    /\ admitLog = <<>>

CallAddOccupant(s, h) ==
    /\ lastCall.seq < MaxOps
    /\ LET out == add_occupant(shelters[s], h)
       IN  /\ shelters' = [shelters EXCEPT ![s] = out.agent]
           /\ Called("add_occupant", s, h, BoolStr(out.ret))
    /\ UNCHANGED <<config, rivers, households, econs, sched, admitLog>>

CallRemoveOccupant(s, h) ==
    /\ lastCall.seq < MaxOps
    /\ shelters' = [shelters EXCEPT ![s] = remove_occupant(shelters[s], h)]
    /\ Called("remove_occupant", s, h, "None")
    /\ UNCHANGED <<config, rivers, households, econs, sched, admitLog>>

CallRequestResources(s, name) ==
    /\ lastCall.seq < MaxOps
    /\ Len(shelters[s].resource_requests) < MaxQueue
    /\ LET out == request_resources(shelters[s], RequestMenu[name])
       IN  /\ shelters' = [shelters EXCEPT ![s] = out.agent]
           /\ Called("request_resources", s, name, BoolStr(out.ret))
    /\ UNCHANGED <<config, rivers, households, econs, sched, admitLog>>

CallShelterStep(s) ==
    /\ lastCall.seq < MaxOps
    /\ shelters' = [shelters EXCEPT ![s] = shelter_step(shelters[s])]
    /\ Called("step", s, "none", "None")
    /\ UNCHANGED <<config, rivers, households, econs, sched, admitLog>>

ShelterNext ==
    \/ \E s \in DOMAIN shelters, h \in HouseholdIds : CallAddOccupant(s, h)
    \/ \E s \in DOMAIN shelters, h \in HouseholdIds : CallRemoveOccupant(s, h)
    \/ \E s \in DOMAIN shelters, name \in DOMAIN RequestMenu :
          CallRequestResources(s, name)
    \/ \E s \in DOMAIN shelters : CallShelterStep(s)

\* One shelter under any sequence of add_occupant, remove_occupant,
\* request_resources and step calls.
SpecShelter == ShelterInit /\ [][ShelterNext]_vars

\* Sequential add_occupant calls on an empty shelter, each for a household
\* not passed before; admitLog keeps what each call returned.
AdmitDistinct(s, h) ==
    /\ \A i \in 1..Len(admitLog) : admitLog[i].household # h
    /\ LET out == add_occupant(shelters[s], h)
       IN  /\ shelters' = [shelters EXCEPT ![s] = out.agent]
           /\ admitLog' = Append(admitLog, [household |-> h, ret |-> out.ret])
           /\ Called("add_occupant", s, h, BoolStr(out.ret))
    /\ UNCHANGED <<config, rivers, households, econs, sched>>

AdmitNext == \E s \in DOMAIN shelters, h \in HouseholdIds : AdmitDistinct(s, h)

SpecAdmit == ShelterInit /\ [][AdmitNext]_vars

\* Rivers alone, stepped from outside with any rainfall of the menu.
ThresholdChoices ==
    { [danger_level |-> 1000, severe_level |-> 1500],
      [danger_level |-> 700,  severe_level |-> 1500],
      [danger_level |-> 1500, severe_level |-> 1000] }

RiverAloneRain == {0, 7, 10, 15}

RiverInit ==
    /\ \E rain \in BOOLEAN, th \in ThresholdChoices : config = BareConfig(rain, th, 1)
    /\ rivers = [r \in RiverIds |-> RiverNew(r)]
    /\ shelters = <<>>
    /\ households = <<>>
    /\ econs = <<>>
    /\ sched = SchedNew
    /\ lastCall = NoCall
    /\ admitLog = <<>>

CallRiverStep(r, rainfall) ==
    /\ lastCall.seq < MaxOps
    /\ LET out == river_step(rivers[r], rainfall)
       IN  /\ rivers' = [rivers EXCEPT ![r] = out.agent]
           /\ Called("step", r, "none", IF out.raised THEN "raised" ELSE "None")
    /\ UNCHANGED <<config, shelters, households, econs, sched, admitLog>>

RiverNext == \E r \in DOMAIN rivers, rainfall \in RiverAloneRain : CallRiverStep(r, rainfall)

SpecRiver == RiverInit /\ [][RiverNext]_vars

\* Rivers alone in a drought: every step is given rainfall 0.
DryNext == \E r \in DOMAIN rivers : CallRiverStep(r, 0)

SpecDryRiver == RiverInit /\ [][DryNext]_vars

\* One household at home, with the warning level, exposure, vulnerability
\* and housing type it may have when _make_evacuation_decision is reached;
\* the decision is then taken with any draw of the menu.
DecisionWarningLevels == 0..3
DecisionExposures == {0, 500, 5000}
DecisionVulnerabilities == {0, 500, 1000}
DecisionDrawMenu == {0, 179, 180, 500, 999}

DecisionInit ==
    /\ config = BareConfig(FALSE, Thresholds, 1)
    /\ rivers = <<>>
    /\ shelters = <<>>
    /\ \E w \in DecisionWarningLevels, x \in DecisionExposures,
          v \in DecisionVulnerabilities, t \in DOMAIN housing_risk :
          households = [h \in {"household_0"} |->
              [HouseholdNew(HouseholdPosition(h),
                            [vulnerability |-> v, housing_type |-> t,
                             base_value |-> 1000])
                  EXCEPT !.warning_level = w, !.warning_received = w > 0,
                         !.flood_exposure = x]]
    /\ econs = <<>>
    /\ sched = SchedNew
    /\ lastCall = NoCall
    /\ admitLog = <<>>

CallMakeDecision(h, draw) ==
    /\ lastCall.seq < MaxOps
    /\ households' = [households EXCEPT
                         ![h] = make_evacuation_decision(households[h], draw)]
    /\ Called("make_evacuation_decision", h, draw, "None")
    /\ UNCHANGED <<config, rivers, shelters, econs, sched, admitLog>>

DecisionNext ==
    \E h \in DOMAIN households, draw \in DecisionDrawMenu : CallMakeDecision(h, draw)

SpecDecision == DecisionInit /\ [][DecisionNext]_vars

\* A shelter that has been run at full occupancy for some steps (its
\* maintenance level then stands at 1 - 0.01 per step, its stocks are drawn
\* down accordingly), then driven from outside: households come and go, the
\* power and water flags are set through update_state, the shelter steps.
\* The shelter after n steps with every place taken: each step takes 0.01
\* off the maintenance level and the occupants' consumption off the stocks,
\* records three snapshots, and a fourth with the maintenance cost once the
\* level is below 0.5.
AgedShelter(position, capacity, n) ==
    LET new   == ShelterNew(position, capacity)
        level == Max(0, 10000 - 100 * n)
    IN  [new EXCEPT
            !.occupants = {HouseholdOrder[i] : i \in 1..capacity},
            !.occupancy = capacity,
            !.resources = [k \in DOMAIN new.resources |->
                Max(0, new.resources[k] - consumption_rates[k] * capacity * n)],
            !.maintenance_level = level,
            !.maintenance_cost =
                IF level < 5000 THEN ((10000 - level) * capacity) \div 100
                ELSE NoCost,
            !.accessibility = (3 * level + 40000) \div 10,
            !.status = "at_capacity",
            !.hlen = 3 * n + Max(0, n - 50)]

StatusAges == {0, 50, 60, 69, 70, 99, 100}

StatusInit ==
    /\ \E cap \in 1..MaxCapacity, n \in StatusAges :
          /\ config = BareConfig(FALSE, Thresholds, cap)
          /\ shelters = [s \in {"shelter_0"} |->
                IF n = 0 THEN ShelterNew(ShelterPosition(s), cap)
                ELSE AgedShelter(ShelterPosition(s), cap, n)]
    /\ rivers = <<>>
    /\ households = <<>>
    /\ econs = <<>>
    /\ sched = SchedNew
    /\ lastCall = NoCall
    /\ admitLog = <<>>

\* BaseAgent.update_state({'power_status': ..., 'water_supply': ...}).
CallSetUtilities(s, power, water) ==
    /\ lastCall.seq < MaxOps
    /\ shelters' = [shelters EXCEPT
                       ![s] = ShelterLogged([@ EXCEPT !.power_status = power,
                                                      !.water_supply = water])]
    /\ Called("update_state", s, "utilities", "None")
    /\ UNCHANGED <<config, rivers, households, econs, sched, admitLog>>

StatusNext ==
    \/ \E s \in DOMAIN shelters, h \in HouseholdIds : CallAddOccupant(s, h)
    \/ \E s \in DOMAIN shelters, h \in HouseholdIds : CallRemoveOccupant(s, h)
    \/ \E s \in DOMAIN shelters, power \in BOOLEAN, water \in BOOLEAN :
          CallSetUtilities(s, power, water)
    \/ \E s \in DOMAIN shelters : CallShelterStep(s)

SpecStatus == StatusInit /\ [][StatusNext]_vars

\* One economic agent beside a river: the river and the agent are stepped
\* from outside and policy interventions are applied in between.
PolicyTypes == {"subsidy", "insurance", "recovery", "infrastructure", "tax"}
PolicyMagnitudes == {-500, 1000}
EconRain == {0, 15}

EconInit ==
    /\ config = BareConfig(TRUE, Thresholds, 1)
    /\ rivers = [r \in {"river_Ganges"} |-> RiverNew(r)]
    /\ shelters = <<>>
    /\ households = <<>>
    /\ \E sector \in {"agriculture", "services"} :
          econs = [e \in {"economic_" \o sector} |-> EconNew(EconPosition, sector)]
    /\ sched = SchedNew
    /\ lastCall = NoCall
    /\ admitLog = <<>>

CallEconStep(e) ==
    /\ lastCall.seq < MaxOps
    /\ econs' = [econs EXCEPT ![e] = econ_step(econs[e])]
    /\ Called("step", e, "none", "None")
    /\ UNCHANGED <<config, rivers, shelters, households, sched, admitLog>>

CallPolicy(e, type, magnitude) ==
    /\ lastCall.seq < MaxOps
    /\ econs' = [econs EXCEPT ![e] = apply_policy_intervention(econs[e], type, magnitude)]
    /\ Called("apply_policy_intervention", e, type, "None")
    /\ UNCHANGED <<config, rivers, shelters, households, sched, admitLog>>

EconNext ==
    \/ \E r \in DOMAIN rivers, rainfall \in EconRain : CallRiverStep(r, rainfall)
    \/ \E e \in DOMAIN econs : CallEconStep(e)
    \/ \E e \in DOMAIN econs, type \in PolicyTypes, magnitude \in PolicyMagnitudes :
          CallPolicy(e, type, magnitude)

SpecEcon == EconInit /\ [][EconNext]_vars

\* One economic agent whose assets, flood impact, production level and
\* insurance rate are set as a test sets them, then _calculate_damage is
\* called.  The values are multiples for which the fixed-point products are
\* exact.
DamageAssets == {10000, 50000}
DamageImpacts == {0, 500, 1000, 1500}
DamageProductionLevels == {0, 500, 1000}
DamageInsuranceRates == {300, 500, 700}

DamageInit ==
    /\ config = BareConfig(FALSE, Thresholds, 1)
    /\ rivers = <<>>
    /\ shelters = <<>>
    /\ households = <<>>
    /\ \E a \in DamageAssets, i \in DamageImpacts,
          p \in DamageProductionLevels, r \in DamageInsuranceRates :
          econs = [e \in EconIds |->
              [EconNew(EconPosition, "agriculture")
                  EXCEPT !.assets = a, !.flood_impact = i,
                         !.production_level = p,
                         !.sector_params.insurance_rate = r]]
    /\ sched = SchedNew
    /\ lastCall = NoCall
    /\ admitLog = <<>>

CallCalculateDamage(e) ==
    /\ lastCall.seq < MaxOps
    /\ econs' = [econs EXCEPT ![e] = calculate_damage(econs[e])]
    /\ Called("calculate_damage", e, "none", "None")
    /\ UNCHANGED <<config, rivers, shelters, households, sched, admitLog>>

DamageNext == \E e \in DOMAIN econs : CallCalculateDamage(e)

SpecDamage == DamageInit /\ [][DamageNext]_vars

\* -------------------------------------------------- a household on its way
\* One shelter and one household the configuration placed somewhere near it
\* (_get_random_position draws any point of the grid), no river.  The model
\* is stepped without end; each pass activates the shelter and the household.
\* History lengths grow with every pass and nothing here reads them: this
\* specification keeps them at 0, so that its behaviours are lassos over a
\* finite set of states.
EvacStarts == {300, 305, 310, 320}

Unlogged(a) == [a EXCEPT !.hlen = 0]

EvacInit ==
    /\ \E cap \in 1..MaxCapacity :
          /\ config = BareConfig(FALSE, Thresholds, cap)
          /\ shelters = [s \in {"shelter_0"} |-> ShelterNew(ShelterPosition(s), cap)]
    /\ \E start \in EvacStarts, profile \in HouseholdProfiles :
          households = [h \in {"household_0"} |-> HouseholdNew(start, profile)]
    /\ rivers = <<>>
    /\ econs = <<>>
    /\ sched = SchedNew
    /\ lastCall = NoCall
    /\ admitLog = <<>>

EvacHouseholdStep(h, draw, u) ==
    /\ LET out == household_step(h, households[h], draw, u)
       IN  /\ households' = [households EXCEPT ![h] = Unlogged(out.household)]
           /\ shelters' = out.shelters
    /\ UNCHANGED <<config, rivers, econs, sched, lastCall, admitLog>>

EvacShelterStep(s) ==
    /\ shelters' = [shelters EXCEPT ![s] = Unlogged(shelter_step(shelters[s]))]
    /\ UNCHANGED <<config, rivers, households, econs, sched, lastCall, admitLog>>

EvacNext ==
    \/ \E h \in DOMAIN households, draw \in DecisionDraws, u \in TravelDraws :
          EvacHouseholdStep(h, draw, u)
    \/ \E s \in DOMAIN shelters : EvacShelterStep(s)

\* Every pass of the scheduler activates every agent: the household's step
\* is taken again and again.
EvacFairness ==
    WF_vars(\E h \in DOMAIN households, draw \in DecisionDraws, u \in TravelDraws :
                EvacHouseholdStep(h, draw, u))

SpecEvac == EvacInit /\ [][EvacNext]_vars /\ EvacFairness

\* ------------------------------------------------- an agent that recovers
\* One economic agent with no river near it, so that every step finds
\* flood_impact 0.  Its production_level is what construction or a subsidy
\* of negative magnitude applied right after it left (1.0, 0.5 or 0.0).  The
\* agent is stepped without end; history lengths are kept at 0 as in the
\* specification of the household on its way.
RecoverySectors == {"agriculture", "services"}
RecoveryIds == {"economic_" \o sector : sector \in RecoverySectors}
RecoveryProductionLevels == {0, 500, 1000}

RecoveryInit ==
    /\ config = BareConfig(TRUE, Thresholds, 1)
    /\ rivers = <<>>
    /\ shelters = <<>>
    /\ households = <<>>
    /\ \E sector \in RecoverySectors, production \in RecoveryProductionLevels :
          econs = [e \in {"economic_" \o sector} |->
                      [EconNew(EconPosition, sector) EXCEPT
                          !.production_level = production]]
    /\ sched = SchedNew
    /\ lastCall = NoCall
    /\ admitLog = <<>>

RecoveryStep(e) ==
    /\ econs' = [econs EXCEPT ![e] = Unlogged(econ_step(econs[e]))]
    /\ UNCHANGED <<config, rivers, shelters, households, sched, lastCall, admitLog>>

RecoveryNext == \E e \in DOMAIN econs : RecoveryStep(e)

\* The scheduler activates the agent in every pass.
SpecRecovery ==
    RecoveryInit /\ [][RecoveryNext]_vars
        /\ WF_vars(\E e \in DOMAIN econs : RecoveryStep(e))

\* ------------------------------------------------- a shelter and its history
\* The shelter's record carries, in this specification, the list
\* self.history.  update_state appends self.state.copy(): a shallow copy, in
\* which every key keeps its value of that moment except 'resources', whose
\* value is the one dict created by __init__; the code never rebinds that
\* key, it writes into the dict.  An entry therefore holds the scalar values
\* and a reference to the live dict.
Snapshot(sh) ==
    [ occupancy         |-> sh.occupancy,
      capacity          |-> sh.capacity,
      status            |-> sh.status,
      accessibility     |-> sh.accessibility,
      maintenance_level |-> sh.maintenance_level,
      power_status      |-> sh.power_status,
      water_supply      |-> sh.water_supply,
      maintenance_cost  |-> sh.maintenance_cost,
      resources         |-> "the resources dict" ]

\* What reading an entry of the history gives while the shelter is sh: the
\* reference is followed to the dict as it is now.
HistoryRead(entry, sh) == [entry EXCEPT !.resources = sh.resources]

\* The snapshots one call of step appends, in order: _check_maintenance's
\* (the new level), _request_maintenance's if it was called,
\* _update_accessibility's and _update_status's.
step_snapshots(sh) ==
    LET consumed   == update_resource_consumption(sh)
        maintained == check_maintenance(consumed)
        level      == [consumed EXCEPT
                          !.maintenance_level = maintained.maintenance_level]
        processed  == process_resource_requests(maintained)
        accessible == update_accessibility(processed)
        final      == update_status(accessible)
    IN  (IF maintained.hlen = consumed.hlen + 2
         THEN <<Snapshot(level), Snapshot(maintained)>>
         ELSE <<Snapshot(maintained)>>)
            \o <<Snapshot(accessible), Snapshot(final)>>

WithHistory(sh, history) ==
    [k \in DOMAIN sh \cup {"history"} |->
        IF k = "history" THEN history ELSE sh[k]]

HistoryInit ==
    /\ \E cap \in 1..MaxCapacity :
          /\ config = BareConfig(FALSE, Thresholds, cap)
          /\ shelters = [s \in {"shelter_0"} |->
                WithHistory(ShelterNew(ShelterPosition(s), cap), <<>>)]
    /\ rivers = <<>>
    /\ households = <<>>
    /\ econs = <<>>
    /\ sched = SchedNew
    /\ lastCall = NoCall
    /\ admitLog = <<>>

HistoryUpdateState(s, power, water) ==
    /\ lastCall.seq < MaxOps
    /\ LET updated == ShelterLogged([shelters[s] EXCEPT !.power_status = power,
                                                        !.water_supply = water])
       IN  shelters' = [shelters EXCEPT
                           ![s] = [updated EXCEPT
                                      !.history = Append(@, Snapshot(updated))]]
    /\ Called("update_state", s, "utilities", "None")
    /\ UNCHANGED <<config, rivers, households, econs, sched, admitLog>>

HistoryStep(s) ==
    /\ lastCall.seq < MaxOps
    /\ shelters' = [shelters EXCEPT
                       ![s] = [shelter_step(shelters[s]) EXCEPT
                                  !.history = @ \o step_snapshots(shelters[s])]]
    /\ Called("step", s, "none", "None")
    /\ UNCHANGED <<config, rivers, households, econs, sched, admitLog>>

HistoryNext ==
    \/ \E s \in DOMAIN shelters, h \in HouseholdIds : CallAddOccupant(s, h)
    \/ \E s \in DOMAIN shelters, h \in HouseholdIds : CallRemoveOccupant(s, h)
    \/ \E s \in DOMAIN shelters, power \in BOOLEAN, water \in BOOLEAN :
          HistoryUpdateState(s, power, water)
    \/ \E s \in DOMAIN shelters : HistoryStep(s)

SpecHistory == HistoryInit /\ [][HistoryNext]_vars

\* ================================================================= claims
\* C2: a household's evacuation_status only moves forward: no step takes it
\* from evacuating back to home, and a sheltered household stays sheltered.
C2_StatusOnlyForward ==
    [][\A h \in DOMAIN households :
          /\ households[h].evacuation_status = "evacuating"
                => households'[h].evacuation_status # "home"
          /\ households[h].evacuation_status = "shelter"
                => households'[h].evacuation_status = "shelter"]_vars

\* C2 witness: one household was sheltered in the first step and stepped
\* again (5 + 2 snapshots); another walked to its shelter in the first step
\* and arrived in the second (4 + 4 snapshots).
C2_Witness ==
    \E h1, h2 \in DOMAIN households :
        /\ households[h1].evacuation_status = "shelter"
        /\ households[h1].hlen = 7
        /\ households[h2].evacuation_status = "shelter"
        /\ households[h2].hlen = 8

\* C3 (as claimed): every sheltered household is in some shelter's occupant
\* set, and the sheltered households are as many as the occupancies add up to.
C3_ShelteredAreOccupants ==
    /\ \A h \in DOMAIN households :
          households[h].evacuation_status = "shelter"
             => \E s \in DOMAIN shelters : h \in shelters[s].occupants
    /\ Cardinality({h \in DOMAIN households :
                       households[h].evacuation_status = "shelter"})
          = SumOver(DOMAIN shelters,
                    [s \in DOMAIN shelters |-> shelters[s].occupancy])

\* C8 (as claimed): when a call of the model's step is over, every
\* registered agent was activated exactly once in it and the step counter
\* has grown by one per call.
C8_EveryAgentOncePerCall ==
    (sched.calls > 0 /\ sched.phase \in {"idle", "failed"})
        => /\ \A a \in AllAgents : sched.activations[a] = 1
           /\ sched.steps = sched.calls

\* C9 (as claimed): when an agent's step has raised, the agents scheduled
\* after it in that pass are activated all the same.
C9_FailureIsolated ==
    sched.phase = "failed" => sched.pending = {}

C1_OccupancyIsCardinality ==
    \A s \in DOMAIN shelters :
        /\ shelters[s].occupancy = Cardinality(shelters[s].occupants)
        /\ shelters[s].occupancy <= shelters[s].capacity

\* C1 witness: a full shelter that has stepped has just refused a household.
C1_Witness ==
    \E s \in DOMAIN shelters :
        /\ lastCall.op = "add_occupant" /\ lastCall.ret = "False"
        /\ shelters[s].occupancy = shelters[s].capacity
        /\ shelters[s].hlen > 0

\* C4 (as claimed): production_level and market_access of every economic
\* agent are within [0, 1].
C4_ProductionAndMarketInUnit ==
    \A e \in DOMAIN econs :
        /\ econs[e].production_level \in 0..1000
        /\ econs[e].market_access \in 0..1000

\* C5: no resource stock of a shelter is ever below zero.
C5_StocksNonNegative ==
    \A s \in DOMAIN shelters :
        \A k \in DOMAIN shelters[s].resources : shelters[s].resources[k] >= 0

\* C5 witness: a step has run with occupants in a shelter whose medical
\* supplies a fulfilled request had already emptied.
C5_Witness ==
    \E s \in DOMAIN shelters :
        /\ lastCall.op = "step"
        /\ shelters[s].occupancy > 0
        /\ shelters[s].resources.medical_supplies = 0

\* What the claim says a river's step leaves as (flood_status, warning_level).
C6_Level(water_level, th) ==
    IF water_level >= th.severe_level THEN 3
    ELSE IF water_level >= th.danger_level THEN 2
    ELSE IF 10 * water_level >= 7 * th.danger_level THEN 1
    ELSE 0

C6_Status(level) ==
    CASE level = 3 -> "severe" [] level = 2 -> "danger"
      [] level = 1 -> "warning" [] OTHER -> "normal"

\* C6: after a river's step, (flood_status, warning_level) is the claimed
\* step function of water_level and the thresholds, warning_level is
\* monotone in water_level, and a river exactly at danger_level (below
\* severe_level) is in status danger.
C6_StatusIsStepFunction ==
    /\ \A r \in DOMAIN rivers :
          rivers[r].hlen > 0 =>
             /\ rivers[r].warning_level
                   = C6_Level(rivers[r].water_level, config.flood_thresholds)
             /\ rivers[r].flood_status = C6_Status(rivers[r].warning_level)
             /\ (/\ rivers[r].water_level = config.flood_thresholds.danger_level
                 /\ config.flood_thresholds.danger_level
                        < config.flood_thresholds.severe_level)
                    => rivers[r].flood_status = "danger"
    /\ \A r1, r2 \in DOMAIN rivers :
          (/\ rivers[r1].hlen > 0 /\ rivers[r2].hlen > 0
           /\ rivers[r1].water_level <= rivers[r2].water_level)
              => rivers[r1].warning_level <= rivers[r2].warning_level

\* C6 witness: a stepped river stands exactly at danger_level, below
\* severe_level, beside a stepped river at a lower warning level.
C6_Witness ==
    \E r1, r2 \in DOMAIN rivers :
        /\ rivers[r1].hlen > 0 /\ rivers[r2].hlen > 0
        /\ rivers[r1].water_level = config.flood_thresholds.danger_level
        /\ config.flood_thresholds.danger_level < config.flood_thresholds.severe_level
        /\ rivers[r2].warning_level = 1

\* C7: of sequential add_occupant calls for distinct households on an empty
\* shelter of capacity c, exactly the first c return True; a refused call
\* leaves the occupant set and the occupancy as they were.
C7_FirstCapacityAdmitted ==
    \A s \in DOMAIN shelters :
        LET c == shelters[s].capacity
            n == Len(admitLog)
        IN  /\ \A i \in 1..n : admitLog[i].ret = (i <= c)
            /\ shelters[s].occupancy = Min(n, c)
            /\ shelters[s].occupants
                  = {admitLog[i].household : i \in 1..Min(n, c)}

\* C7 witness: capacity 2, three calls, occupancy 2.
C7_Witness ==
    \E s \in DOMAIN shelters :
        /\ shelters[s].capacity = 2
        /\ Len(admitLog) = 3
        /\ shelters[s].occupancy = 2

\* C11: a step changes a household's damage_level and assets_at_risk only
\* if the household is at home when the step's evacuation phase is over; once
\* it is evacuating or sheltered both keep the values of its last step at
\* home, whatever the rivers do.
C11_DamageFrozenAwayFromHome ==
    [][\A h \in DOMAIN households :
          households'[h].evacuation_status # "home"
             => /\ households'[h].damage_level = households[h].damage_level
                /\ households'[h].assets_at_risk = households[h].assets_at_risk]_vars

\* C11 witness: a household away from home keeps a damage assessed at home
\* that its present flood exposure would no longer give.
C11_Witness ==
    \E h \in DOMAIN households :
        /\ households[h].evacuation_status # "home"
        /\ households[h].damage_level > 0
        /\ households[h].damage_level
              # (households[h].flood_exposure
                    * damage_factors[households[h].housing_type]) \div 10

\* C12: a river that starts at water_level 0 and is given rainfall 0 at
\* every step keeps water_level, flow_rate and sediment_load at 0, status
\* normal, warning_level 0 and no affected area (the thresholds are positive).
C12_DryRiverStaysAtZero ==
    \A r \in DOMAIN rivers :
        /\ rivers[r].water_level = 0
        /\ rivers[r].flow_rate = 0
        /\ rivers[r].sediment_load = 0
        /\ rivers[r].flood_status = "normal"
        /\ rivers[r].warning_level = 0
        /\ rivers[r].affected_areas = 0

\* C12 witness: a river has completed MaxOps dry steps (five snapshots each).
C12_Witness ==
    /\ config.flood_thresholds.danger_level > 0
    /\ \E r \in DOMAIN rivers : rivers[r].hlen = 5 * MaxOps

\* What the claim gives as the unclamped evacuation probability, in
\* thousandths: (0.3 warning_level + 0.4 exposure + 0.3 vulnerability) times
\* the housing multiplier 1.2, 1.0 or 0.8.
C13_Unclamped(h) ==
    LET multiplier == CASE h.housing_type = "kutcha" -> 12
                        [] h.housing_type = "semi_pucca" -> 10
                        [] OTHER -> 8
    IN  ((3000 * h.warning_level + 4 * h.flood_exposure + 3 * h.vulnerability)
            * multiplier) \div 100

\* C13: for a household at home the decision is true exactly when the draw
\* is below min(1, unclamped probability); with the unclamped value at 1 or
\* more it is true for every draw.
C13_DecisionIsDrawBelowProbability ==
    \A h \in DOMAIN households :
        (lastCall.op = "make_evacuation_decision" /\ lastCall.agent = h)
           => /\ households[h].evacuation_decision
                    = (lastCall.arg < Min(1000, C13_Unclamped(households[h])))
              /\ C13_Unclamped(households[h]) >= 1000
                    => households[h].evacuation_decision

\* C13 witness: vulnerability 1, kutcha, warning_level 3, exposure 5 and the
\* largest draw: the decision is true.
C13_Witness ==
    \E h \in DOMAIN households :
        /\ lastCall.op = "make_evacuation_decision" /\ lastCall.arg = 999
        /\ households[h].vulnerability = 1000
        /\ households[h].housing_type = "kutcha"
        /\ households[h].warning_level = 3
        /\ households[h].flood_exposure = 5000
        /\ households[h].evacuation_decision

\* What the claim gives as base_damage: assets * flood_impact *
\* (1 - production_level).
C14_BaseDamage(e) ==
    (((e.assets * e.flood_impact) \div 1000) * (1000 - e.production_level)) \div 1000

\* C14: after the damage calculation insured_damage is base_damage times the
\* insurance rate, damage is base_damage times (1 - insurance rate), and the
\* two add up to base_damage.
C14_DamageSplitsBaseDamage ==
    \A e \in DOMAIN econs :
        lastCall.op = "calculate_damage"
           => /\ 1000 * econs[e].insured_damage
                    = C14_BaseDamage(econs[e]) * econs[e].sector_params.insurance_rate
              /\ 1000 * econs[e].damage
                    = C14_BaseDamage(econs[e])
                         * (1000 - econs[e].sector_params.insurance_rate)
              /\ econs[e].insured_damage + econs[e].damage
                    = C14_BaseDamage(econs[e])

\* C14 witness: assets 10000, flood_impact 0.5, production_level 0 and
\* insurance rate 0.3 give base 5000, insured 1500 and uninsured 3500.
C14_Witness ==
    \E e \in DOMAIN econs :
        /\ lastCall.op = "calculate_damage"
        /\ econs[e].assets = 10000 /\ econs[e].flood_impact = 500
        /\ econs[e].production_level = 0
        /\ econs[e].sector_params.insurance_rate = 300
        /\ C14_BaseDamage(econs[e]) = 5000
        /\ econs[e].insured_damage = 1500
        /\ econs[e].damage = 3500

\* C15 (as claimed): the length of an agent's history is the number of
\* state-mutating calls made on it; on a shelter that has only been sent
\* add_occupant calls these are the calls that admitted a household.
C15_HistoryCountsMutations ==
    \A s \in DOMAIN shelters :
        shelters[s].hlen
            = Cardinality({i \in 1..Len(admitLog) : admitLog[i].ret})

C17_UnknownResourceRejected ==
    [][\A s \in DOMAIN shelters :
          (/\ lastCall'.seq = lastCall.seq + 1
           /\ lastCall'.op = "request_resources"
           /\ lastCall'.agent = s
           /\ \E k \in DOMAIN RequestMenu[lastCall'.arg] :
                  k \notin DOMAIN shelters[s].resources)
             => /\ lastCall'.ret = "False"
                /\ shelters'[s].resource_requests = shelters[s].resource_requests
                /\ shelters'[s].resources = shelters[s].resources]_vars

\* C17 witness: a request for food and for an unstocked resource was just
\* refused although the food was there, with another request pending.
C17_Witness ==
    \E s \in DOMAIN shelters :
        /\ lastCall.op = "request_resources" /\ lastCall.arg = "food_and_fuel"
        /\ lastCall.ret = "False"
        /\ shelters[s].resources.food >= RequestMenu.food_and_fuel.food
        /\ Len(shelters[s].resource_requests) = 1

\* What the claim says examining a queue against a running stock leaves:
\* a request is fulfilled exactly if all its quantities are available when
\* its turn comes; the others are kept, in order.
RECURSIVE C18_Examine(_, _)
C18_Examine(queue, stock) ==
    IF queue = <<>> THEN [stock |-> stock, kept |-> <<>>]
    ELSE LET request == Head(queue)
             available == \A k \in DOMAIN request : stock[k] >= request[k]
             rest == C18_Examine(Tail(queue),
                        IF available
                        THEN [k \in DOMAIN stock |->
                                 IF k \in DOMAIN request
                                 THEN stock[k] - request[k] ELSE stock[k]]
                        ELSE stock)
         IN  [ stock |-> rest.stock,
               kept  |-> IF available THEN rest.kept ELSE <<request>> \o rest.kept ]

\* C18: a shelter step examines the pending requests in the order they were
\* enqueued against the running stock (what the occupants' consumption of
\* that step has left); it fulfils and removes exactly those that are fully
\* available at their turn, and keeps the others in their order.
C18_RequestsProcessedInOrder ==
    [][\A s \in DOMAIN shelters :
          (/\ lastCall'.seq = lastCall.seq + 1
           /\ lastCall'.op = "step"
           /\ lastCall'.agent = s)
             => LET start == [k \in DOMAIN shelters[s].resources |->
                                 Max(0, shelters[s].resources[k]
                                          - consumption_rates[k] * shelters[s].occupancy)]
                    out == C18_Examine(shelters[s].resource_requests, start)
                IN  /\ shelters'[s].resources = out.stock
                    /\ shelters'[s].resource_requests = out.kept]_vars

\* C18 witness: of two pending requests the first could not be fulfilled and
\* is still queued, the second was examined all the same and fulfilled.
C18_Witness ==
    \E s \in DOMAIN shelters :
        /\ lastCall.op = "step"
        /\ shelters[s].resource_requests = <<RequestMenu.all_medical>>
        /\ shelters[s].resources.medical_supplies = 399

\* The status the claim's priority list gives for a shelter's state.
C19_Priority(sh) ==
    IF sh.occupancy >= sh.capacity THEN "at_capacity"
    ELSE IF sh.maintenance_level <= 3000 THEN "maintenance_needed"
    ELSE IF \E k \in DOMAIN sh.resources : sh.resources[k] < 1000
         THEN "resource_critical"
    ELSE IF sh.power_status /\ sh.water_supply THEN "operational"
    ELSE "non_operational"

\* C19: right after a shelter's own step its status is the first matching
\* entry of the priority list on its state at that moment; the
\* maintenance_needed written mid-step below 0.5 survives only at 0.3 or
\* less.
C19_StatusByPriority ==
    \A s \in DOMAIN shelters :
        lastCall.op = "step"
           => /\ shelters[s].status = C19_Priority(shelters[s])
              /\ shelters[s].status = "maintenance_needed"
                    => shelters[s].maintenance_level <= 3000

\* C19 witness: a step asked for maintenance (level below 0.5, cost written)
\* and ended with another status because the level is above 0.3.
C19_Witness ==
    \E s \in DOMAIN shelters :
        /\ lastCall.op = "step"
        /\ shelters[s].maintenance_level > 3000
        /\ shelters[s].maintenance_level < 5000
        /\ shelters[s].maintenance_cost # NoCost
        /\ shelters[s].occupancy < shelters[s].capacity
        /\ shelters[s].status # "maintenance_needed"

\* The accessibility _update_accessibility computes from the shelter's
\* fields as they are now.
C20_WeightedSum(sh) ==
    (3 * sh.maintenance_level
        + 2 * (IF sh.power_status THEN 10000 ELSE 5000)
        + 2 * (IF sh.water_supply THEN 10000 ELSE 5000)
        + 3 * (10000 - (10000 * sh.occupancy) \div sh.capacity)) \div 10

\* C20 (as claimed): when a call of the model's step has returned, every
\* shelter's status is 'at_capacity' exactly if its occupancy has reached its
\* capacity, and its accessibility is the weighted sum of its factors at its
\* occupancy of that moment, whatever the order of activation was.
C20_ShelterSettledAtStepEnd ==
    (sched.calls > 0 /\ sched.phase = "idle")
        => \A s \in DOMAIN shelters :
              /\ (shelters[s].status = "at_capacity")
                    <=> (shelters[s].occupancy >= shelters[s].capacity)
              /\ shelters[s].accessibility = C20_WeightedSum(shelters[s])

\* C21 (as claimed): a household that is evacuating while a shelter exists
\* reaches the shelter at last, if the model keeps stepping, whatever its
\* starting distance and its draws.
C21_EvacuatingReachesShelter ==
    \A h \in {"household_0"} :
        (h \in DOMAIN households /\ DOMAIN shelters # {}
            /\ households[h].evacuation_status = "evacuating")
          ~> (households[h].evacuation_status = "shelter")

\* The rivers in the cells at Chebyshev distance 1..3 of the cell of x.
C22_Visible(x) ==
    { r \in DOMAIN rivers :
        /\ Cell(rivers[r].position) # Cell(x)
        /\ Abs(Cell(rivers[r].position) - Cell(x)) <= 3 }

\* C22: the warning_level a household has after its activation is the
\* greatest warning_level among the rivers within radius 3 of its cell as
\* they are when it is activated (0 with none): what a river activated
\* earlier in the pass has already written, and what a river activated
\* later still holds from the pass before.
C22_WarningIsMaxAtActivation ==
    [][\A h \in DOMAIN households :
          (sched.phase = "stepping" /\ h \in sched.pending /\ h \notin sched'.pending)
             => LET near == C22_Visible(households[h].position)
                    level == households'[h].warning_level
                IN  /\ \A r \in near : rivers[r].warning_level <= level
                    /\ near = {} => level = 0
                    /\ near # {} => \E r \in near : rivers[r].warning_level = level]_vars

\* C22 witness: in the first pass the river has risen to warning level 1;
\* one household was activated before it and holds 0, another after it and
\* holds 1.
C22_Witness ==
    /\ sched.calls = 1
    /\ \E r \in DOMAIN rivers, h1, h2 \in DOMAIN households :
          /\ rivers[r].warning_level = 1
          /\ r \in C22_Visible(households[h1].position)
          /\ r \in C22_Visible(households[h2].position)
          /\ sched.activations[r] = 1
          /\ sched.activations[h1] = 1
          /\ sched.activations[h2] = 1
          /\ households[h1].warning_level = 0
          /\ households[h2].warning_level = 1

\* C23: a river's state and its history change only in that river's own
\* activation; the activation of a household, a shelter or an economic
\* agent, with the get_flood_warning calls it makes, leaves every river as
\* it was.
C23_RiverChangedOnlyByOwnStep ==
    [][\A r \in DOMAIN rivers :
          rivers'[r] # rivers[r]
             => /\ sched.phase = "stepping"
                /\ r \in sched.pending
                /\ sched'.pending = sched.pending \ {r}]_vars

\* C23 witness: a pass is over in which a river rose and a household and
\* another agent that is no river were activated after it; the household
\* read the river's raised warning and water level.
C23_Witness ==
    /\ sched.phase = "idle"
    /\ sched.calls > 0
    /\ \E r \in DOMAIN rivers, h \in DOMAIN households :
          /\ rivers[r].water_level > 0
          /\ rivers[r].hlen > 0
          /\ households[h].warning_level = rivers[r].warning_level
          /\ households[h].warning_level > 0
          /\ households[h].flood_exposure > 0
          /\ AllAgents \ (DOMAIN rivers \cup {h}) # {}

\* C24 (as claimed): every step of a river derives affected_areas anew: the
\* step runs to its end, and what it leaves is empty unless the status it
\* has just written is 'danger' or 'severe'.
C24_AffectedAreasRederived ==
    [][\A r \in DOMAIN rivers :
          (lastCall'.seq = lastCall.seq + 1 /\ lastCall'.op = "step"
              /\ lastCall'.agent = r /\ config.rainfall_source)
             => /\ lastCall'.ret = "None"
                /\ rivers'[r].hlen = rivers[r].hlen + 5
                /\ rivers'[r].affected_areas # 0
                      => rivers'[r].flood_status \in {"danger", "severe"}]_vars

\* C25: under any sequence of add_occupant, remove_occupant and step calls a
\* shelter's accessibility and maintenance_level stay within [0, 1], and the
\* maintenance_level never increases.
C25_AccessibilityAndMaintenanceBounded ==
    /\ [](\A s \in DOMAIN shelters :
            /\ shelters[s].accessibility \in 0..10000
            /\ shelters[s].maintenance_level \in 0..10000)
    /\ [][\A s \in DOMAIN shelters :
            shelters'[s].maintenance_level <= shelters[s].maintenance_level]_vars

\* C25 witness: a step of a full shelter whose maintenance_level had come
\* down to 0.01 or less left it at the floor 0, with the accessibility
\* computed from it.
C25_Witness ==
    \E s \in DOMAIN shelters :
        /\ lastCall.op = "step"
        /\ shelters[s].maintenance_level = 0
        /\ shelters[s].occupancy = shelters[s].capacity
        /\ shelters[s].accessibility
              = 2 * (IF shelters[s].power_status THEN 1000 ELSE 500)
                  + 2 * (IF shelters[s].water_supply THEN 1000 ELSE 500)

\* C26 (as claimed): an economic agent's recovery_rate stays within [0, 1]
\* and its damage and insured_damage stay non-negative, whatever the water
\* levels of the rivers near it.
C26_RecoveryAndDamageBounded ==
    \A e \in DOMAIN econs :
        /\ econs[e].recovery_rate \in 0..1000
        /\ econs[e].damage >= 0
        /\ econs[e].insured_damage >= 0

\* C27: with flood_impact 0 at every step, an economic agent's recovery_rate
\* grows by 1 / recovery_time per step, capped at 1 (so it never decreases
\* and stays 1 once there), and at last its production_level is 1 and its
\* recovery_rate is 1 (it reports 'recovered') for good.
C27_RecoversWhenDry ==
    /\ [][\A e \in DOMAIN econs :
            /\ econs'[e].flood_impact = 0
            /\ econs'[e].recovery_rate
                  = Min(1000, econs[e].recovery_rate
                                 + 1000 \div econs[e].sector_params.recovery_time)
            /\ econs'[e].recovery_rate >= econs[e].recovery_rate]_vars
    /\ \A e \in RecoveryIds :
          <>[](e \in DOMAIN econs
                  => /\ econs[e].production_level = 1000
                     /\ econs[e].recovery_rate = 1000)

\* C27 witness: the agriculture agent has recovered after its 180 days of
\* dry steps: its recovery_rate, 0 at the start, is 1, and so is its
\* production_level.
C27_Witness ==
    \E e \in DOMAIN econs :
        /\ econs[e].sector = "agriculture"
        /\ econs[e].recovery_rate = 1000
        /\ econs[e].production_level = 1000
        /\ econs[e].flood_impact = 0
        /\ econs[e].market_access = 1000
        /\ econs[e].damage = 0

\* C28 (as claimed): the history is an append-only log of snapshots: a call
\* only appends to it, right after an update_state the last entry reads as
\* the current state, and an entry reads afterwards as it read when it was
\* appended, its resource quantities included.
C28_HistoryEntriesFrozen ==
    [][\A s \in DOMAIN shelters :
          LET before == shelters[s]
              after  == shelters'[s]
          IN  /\ Len(after.history) >= Len(before.history)
              /\ lastCall'.op \in {"update_state", "step"}
                    => HistoryRead(after.history[Len(after.history)], after)
                          = HistoryRead(Snapshot(after), after)
              /\ \A i \in 1..Len(before.history) :
                    HistoryRead(after.history[i], after)
                        = HistoryRead(before.history[i], before)]_vars

\* C29: a household is in the occupant set of at most one shelter, and
\* every member of an occupant set is a household whose evacuation_status
\* is 'shelter'.
C29_OccupantsAreSheltered ==
    /\ \A s, t \in DOMAIN shelters :
          s # t => shelters[s].occupants \cap shelters[t].occupants = {}
    /\ \A s \in DOMAIN shelters :
          \A h \in shelters[s].occupants :
              /\ h \in DOMAIN households
              /\ households[h].evacuation_status = "shelter"

\* C29 witness: with two shelters, a household admitted to one of them in
\* the first pass has been activated again in the second.
C29_Witness ==
    /\ Cardinality(DOMAIN shelters) = 2
    /\ sched.calls = 2
    /\ \E s \in DOMAIN shelters, h \in DOMAIN households :
          /\ h \in shelters[s].occupants
          /\ sched.activations[h] = 1
          /\ households[h].evacuation_status = "shelter"

\* C30: a household leaves 'home' only in a step of its own in which a
\* shelter exists and its decision was drawn true; its evacuation_decision
\* is true whenever its status is 'evacuating' and false whenever it is
\* 'shelter'.
C30_DecisionFollowsStatus ==
    /\ [](\A h \in DOMAIN households :
            /\ households[h].evacuation_status = "evacuating"
                  => households[h].evacuation_decision
            /\ households[h].evacuation_status = "shelter"
                  => ~households[h].evacuation_decision)
    /\ [][\A h \in DOMAIN households :
            (households[h].evacuation_status = "home"
                /\ households'[h].evacuation_status # "home")
               => /\ DOMAIN shelters # {}
                  /\ \E draw \in DecisionDraws, u \in TravelDraws :
                        ActivateHousehold(h, draw, u)
                  /\ \A draw \in DecisionDraws, u \in TravelDraws :
                        ActivateHousehold(h, draw, u)
                           => draw < final_probability(
                                  assess_flood_risk(check_warnings(households[h])))]_vars

\* C30 witness: a household that left home has moved its step towards the
\* shelter and is still evacuating, its decision flag still true.
C30_Witness ==
    \E h \in DOMAIN households, s \in DOMAIN shelters :
        /\ households[h].evacuation_status = "evacuating"
        /\ households[h].evacuation_decision
        /\ households[h].nearest_shelter = s
        /\ households[h].position # HouseholdPosition(h)
        /\ sched.activations[h] = 1

=============================================================================
